---- MODULE Spec2Model ----
(***************************************************************************)
(* The Tic-Tac-Toe firmware of src/TicTacToe/TicTacToe.ino as a state      *)
(* machine: the four globals (board, currentPlayer, gameOver, gameMode),   *)
(* the serial output of the command being processed, and the position of   *)
(* loop(): waiting for a line, or inside the retry loop of aiMoveRandom    *)
(* called from the PvAI trigger or from handleAiVsAi.                      *)
(***************************************************************************)
EXTENDS Integers, Sequences, FiniteSets, TLC

VARIABLES board, currentPlayer, gameOver, gameMode, out, lastBoard, pc, ret

vars == <<board, currentPlayer, gameOver, gameMode, out, lastBoard, pc, ret>>

(* ---------------------------------------------------------------- bounds *)
\* row and col of a MOVE payload are drawn from the indices of the board and
\* CoordMargin values on either side of them
CoordMargin == 1
\* the mode of a MODE payload is drawn from 0..MaxMode
MaxMode == 3

(* ------------------------------------------------------------- constants *)
BOARD_SIZE == 3

Idx == 0..(BOARD_SIZE - 1)
Cell == {" ", "X", "O"}
Players == {"X", "O"}
CoordInputs == (0 - CoordMargin)..(BOARD_SIZE - 1 + CoordMargin)
ModeInputs == 0..MaxMode

EmptyBoard == [i \in Idx |-> [j \in Idx |-> " "]]
\* no board message has been sent yet
NoBoard == <<>>
NoRet == <<>>

(* --------------------------------------------------- the globals as a value *)
Cur ==
  [board |-> board, currentPlayer |-> currentPlayer, gameOver |-> gameOver,
   gameMode |-> gameMode, out |-> out, lastBoard |-> lastBoard]

(* ------------------------------------------------------------ functions *)
initializeBoard_keepsPlayer(s) ==
  [s EXCEPT !.board = [i \in Idx |-> [j \in Idx |-> " "]],
            !.gameOver = FALSE]

initializeBoard_keepsGameOver(s) ==
  [s EXCEPT !.board = [i \in Idx |-> [j \in Idx |-> " "]],
            !.currentPlayer = "X"]

initializeBoard(s) ==
  [s EXCEPT !.board = [i \in Idx |-> [j \in Idx |-> " "]],
            !.currentPlayer = "X",
            !.gameOver = FALSE]

sendJsonMessage(s, type, message) ==
  [s EXCEPT !.out = Append(@, <<type, message>>)]

\* the board message is logged by its type; its payload, the 3x3 snapshot,
\* is kept in lastBoard
sendBoardState(s) ==
  [s EXCEPT !.out = Append(@, <<"board", "">>), !.lastBoard = s.board]

checkWin_noAntiDiagonal(s) ==
  LET b == s.board
      p == s.currentPlayer
  IN \/ \E i \in Idx :
          \/ (b[i][0] = p /\ b[i][1] = p /\ b[i][2] = p)
          \/ (b[0][i] = p /\ b[1][i] = p /\ b[2][i] = p)
     \/ (b[0][0] = p /\ b[1][1] = p /\ b[2][2] = p)

checkWin(s) ==
  LET b == s.board
      p == s.currentPlayer
  IN \/ \E i \in Idx :
          \/ (b[i][0] = p /\ b[i][1] = p /\ b[i][2] = p)
          \/ (b[0][i] = p /\ b[1][i] = p /\ b[2][i] = p)
     \/ (b[0][0] = p /\ b[1][1] = p /\ b[2][2] = p)
     \/ (b[0][2] = p /\ b[1][1] = p /\ b[2][0] = p)

checkDraw(s) ==
  ~ \E i \in Idx : \E j \in Idx : s.board[i][j] = " "

WinMessage(p) == "Player " \o p \o " wins!"
DrawMessage == "It's a draw!"
ModeMessage(m) == "Game mode set to " \o ToString(m)

SwitchPlayer(s) ==
  [s EXCEPT !.currentPlayer = IF s.currentPlayer = "X" THEN "O" ELSE "X"]

\* aiMoveRandom, one iteration of its loop with the drawn cell (row, col)
aiMoveRandomHits_anyCell(s, row, col) == TRUE
aiMoveRandomHits(s, row, col) == s.board[row][col] = " "
aiMoveRandomPlace(s, row, col) ==
  [s EXCEPT !.board[row][col] = s.currentPlayer]

\* the condition of makeMove's if
makeMoveOk_occupied(s, row, col) ==
  /\ row >= 0 /\ row < BOARD_SIZE /\ col >= 0 /\ col < BOARD_SIZE
  /\ ~ s.gameOver

makeMoveOk_afterEnd(s, row, col) ==
  /\ row >= 0 /\ row < BOARD_SIZE /\ col >= 0 /\ col < BOARD_SIZE
  /\ s.board[row][col] = " "

makeMoveOk(s, row, col) ==
  /\ row >= 0 /\ row < BOARD_SIZE /\ col >= 0 /\ col < BOARD_SIZE
  /\ s.board[row][col] = " "
  /\ ~ s.gameOver

\* the state makeMove leaves; its return value is makeMoveOk
makeMove_noSwitch(s, row, col) ==
  IF makeMoveOk(s, row, col)
  THEN LET s1 == [s EXCEPT !.board[row][col] = s.currentPlayer]
       IN IF checkWin(s1)
          THEN [sendJsonMessage(s1, "win_status", WinMessage(s1.currentPlayer))
                  EXCEPT !.gameOver = TRUE]
          ELSE IF checkDraw(s1)
          THEN [sendJsonMessage(s1, "win_status", DrawMessage)
                  EXCEPT !.gameOver = TRUE]
          ELSE s1
  ELSE s

makeMove_drawFirst(s, row, col) ==
  IF makeMoveOk(s, row, col)
  THEN LET s1 == [s EXCEPT !.board[row][col] = s.currentPlayer]
       IN IF checkDraw(s1)
          THEN [sendJsonMessage(s1, "win_status", DrawMessage)
                  EXCEPT !.gameOver = TRUE]
          ELSE IF checkWin(s1)
          THEN [sendJsonMessage(s1, "win_status", WinMessage(s1.currentPlayer))
                  EXCEPT !.gameOver = TRUE]
          ELSE SwitchPlayer(s1)
  ELSE s

makeMove_noDraw(s, row, col) ==
  IF makeMoveOk(s, row, col)
  THEN LET s1 == [s EXCEPT !.board[row][col] = s.currentPlayer]
       IN IF checkWin(s1)
          THEN [sendJsonMessage(s1, "win_status", WinMessage(s1.currentPlayer))
                  EXCEPT !.gameOver = TRUE]
          ELSE SwitchPlayer(s1)
  ELSE s

makeMove_winNotOver(s, row, col) ==
  IF makeMoveOk(s, row, col)
  THEN LET s1 == [s EXCEPT !.board[row][col] = s.currentPlayer]
       IN IF checkWin(s1)
          THEN sendJsonMessage(s1, "win_status", WinMessage(s1.currentPlayer))
          ELSE IF checkDraw(s1)
          THEN [sendJsonMessage(s1, "win_status", DrawMessage)
                  EXCEPT !.gameOver = TRUE]
          ELSE SwitchPlayer(s1)
  ELSE s

makeMove(s, row, col) ==
  IF makeMoveOk(s, row, col)
  THEN LET s1 == [s EXCEPT !.board[row][col] = s.currentPlayer]
       IN IF checkWin(s1)
          THEN [sendJsonMessage(s1, "win_status", WinMessage(s1.currentPlayer))
                  EXCEPT !.gameOver = TRUE]
          ELSE IF checkDraw(s1)
          THEN [sendJsonMessage(s1, "win_status", DrawMessage)
                  EXCEPT !.gameOver = TRUE]
          ELSE SwitchPlayer(s1)
  ELSE s

\* handleAiVsAi from the head of its while loop up to the next call of
\* aiMoveRandom (pc "aivai") or to its return (pc "idle")
handleAiVsAi_noDrawCheck(s) ==
  IF s.gameOver
  THEN [st |-> s, pc |-> "idle"]
  ELSE [st |-> s, pc |-> "aivai"]

handleAiVsAi(s) ==
  IF s.gameOver
  THEN [st |-> s, pc |-> "idle"]
  ELSE IF checkDraw(s)
  THEN [st |-> [sendJsonMessage(s, "win_status", DrawMessage)
                  EXCEPT !.gameOver = TRUE],
        pc |-> "idle"]
  ELSE [st |-> s, pc |-> "aivai"]

\* handleAiVsAi from the return of aiMoveRandom on
handleAiVsAiAfterMove_boardLast(s) ==
  IF checkWin(s)
  THEN [st |-> sendBoardState([sendJsonMessage(s, "win_status",
                                               WinMessage(s.currentPlayer))
                                 EXCEPT !.gameOver = TRUE]),
        pc |-> "idle"]
  ELSE handleAiVsAi(sendBoardState(SwitchPlayer(s)))

handleAiVsAiAfterMove(s) ==
  IF checkWin(s)
  THEN [st |-> [sendJsonMessage(sendBoardState(s), "win_status",
                                WinMessage(s.currentPlayer))
                  EXCEPT !.gameOver = TRUE],
        pc |-> "idle"]
  ELSE handleAiVsAi(sendBoardState(SwitchPlayer(s)))

\* loop(), the PvAI branch after its call of aiMoveRandom
loopAfterAiMove_noBoard(s) ==
  LET s1 == IF checkWin(s)
            THEN [sendJsonMessage(s, "win_status", WinMessage(s.currentPlayer))
                    EXCEPT !.gameOver = TRUE]
            ELSE IF checkDraw(s)
            THEN [sendJsonMessage(s, "win_status", DrawMessage)
                    EXCEPT !.gameOver = TRUE]
            ELSE s
  IN [st |-> [s1 EXCEPT !.currentPlayer = "X"], pc |-> "idle"]

loopAfterAiMove_keepsTurn(s) ==
  LET s1 == IF checkWin(s)
            THEN [sendJsonMessage(s, "win_status", WinMessage(s.currentPlayer))
                    EXCEPT !.gameOver = TRUE]
            ELSE IF checkDraw(s)
            THEN [sendJsonMessage(s, "win_status", DrawMessage)
                    EXCEPT !.gameOver = TRUE]
            ELSE s
  IN [st |-> sendBoardState(s1), pc |-> "idle"]

loopAfterAiMove(s) ==
  LET s1 == IF checkWin(s)
            THEN [sendJsonMessage(s, "win_status", WinMessage(s.currentPlayer))
                    EXCEPT !.gameOver = TRUE]
            ELSE IF checkDraw(s)
            THEN [sendJsonMessage(s, "win_status", DrawMessage)
                    EXCEPT !.gameOver = TRUE]
            ELSE s
  IN [st |-> sendBoardState([s1 EXCEPT !.currentPlayer = "X"]), pc |-> "idle"]

\* loop(), the AI move logic that follows the dispatch of a parsed command
loopAiLogic_anyTurn(s) ==
  IF s.gameMode = 1 /\ ~ s.gameOver
  THEN [st |-> s, pc |-> "pvai"]
  ELSE IF s.gameMode = 2 /\ ~ s.gameOver
  THEN handleAiVsAi(s)
  ELSE [st |-> s, pc |-> "idle"]

loopAiLogic_noAutoplay(s) ==
  IF s.gameMode = 1 /\ ~ s.gameOver /\ s.currentPlayer = "O"
  THEN [st |-> s, pc |-> "pvai"]
  ELSE [st |-> s, pc |-> "idle"]

loopAiLogic_elseAutoplay(s) ==
  IF s.gameMode = 1 /\ ~ s.gameOver /\ s.currentPlayer = "O"
  THEN [st |-> s, pc |-> "pvai"]
  ELSE IF s.gameMode >= 2 /\ ~ s.gameOver
  THEN handleAiVsAi(s)
  ELSE [st |-> s, pc |-> "idle"]

loopAiLogic(s) ==
  IF s.gameMode = 1 /\ ~ s.gameOver /\ s.currentPlayer = "O"
  THEN [st |-> s, pc |-> "pvai"]
  ELSE IF s.gameMode = 2 /\ ~ s.gameOver
  THEN handleAiVsAi(s)
  ELSE [st |-> s, pc |-> "idle"]

\* loop(), the dispatch of each command
loopMove(s, row, col) ==
  IF makeMoveOk(s, row, col)
  THEN sendBoardState(makeMove(s, row, col))
  ELSE sendJsonMessage(makeMove(s, row, col), "error", "Invalid move.")

loopReset(s) ==
  sendBoardState(sendJsonMessage(initializeBoard(s), "game_status", "Game reset."))

loopMode_resetFirst(s, m) ==
  LET s1 == sendJsonMessage(initializeBoard([s EXCEPT !.gameMode = m]),
                            "game_status", "Game reset.")
  IN sendBoardState(sendJsonMessage(s1, "game_mode", ModeMessage(m)))

loopMode(s, m) ==
  LET s1 == sendJsonMessage([s EXCEPT !.gameMode = m], "game_mode", ModeMessage(m))
  IN sendBoardState(sendJsonMessage(initializeBoard(s1), "game_status", "Game reset."))

(* ---------------------------------------------------------------- actions *)
\* the globals and the position of loop() after a step
Commit(r) ==
  /\ board' = r.st.board
  /\ currentPlayer' = r.st.currentPlayer
  /\ gameOver' = r.st.gameOver
  /\ gameMode' = r.st.gameMode
  /\ out' = r.st.out
  /\ lastBoard' = r.st.lastBoard
  /\ pc' = r.pc

\* the globals when a new line has been read: out logs the messages of the
\* command being processed
Fresh == [Cur EXCEPT !.out = <<>>]

\* loop() for a line holding each command, from the dispatch through the AI
\* move logic, up to the first call of aiMoveRandom or the end of loop()
OnMove(row, col) == loopAiLogic(loopMove(Fresh, row, col))
OnReset == loopAiLogic(loopReset(Fresh))
OnMode(m) == loopAiLogic(loopMode(Fresh, m))
\* a line that parses and whose command is none of MOVE, RESET, MODE. A line
\* without a "command" string hands strcmp a null pointer; the sketch is built
\* for arduino:avr:uno, where strcmp then reads the register file at address
\* 0, whose second byte is the zero register, so that none of the three
\* comparisons yields 0 and the line is handled like any other command
OnOther == loopAiLogic(Fresh)
\* a line that deserializeJson rejects
OnParseError == [st |-> Fresh, pc |-> "idle"]
\* the return of aiMoveRandom to its caller once it has drawn an empty cell
OnAiMove(row, col) ==
  IF pc = "pvai"
  THEN loopAfterAiMove(aiMoveRandomPlace(Cur, row, col))
  ELSE handleAiVsAiAfterMove(aiMoveRandomPlace(Cur, row, col))

Init ==
  /\ board = EmptyBoard
  /\ currentPlayer = "X"
  /\ gameOver = FALSE
  /\ gameMode = 0
  /\ out = << <<"info", "TicTacToe Game Started">> >>
  /\ lastBoard = NoBoard
  /\ pc = "idle"
  /\ ret = NoRet

Move(row, col) ==
  /\ pc = "idle"
  /\ Commit(OnMove(row, col))
  /\ UNCHANGED ret

Reset ==
  /\ pc = "idle"
  /\ Commit(OnReset)
  /\ UNCHANGED ret

Mode(m) ==
  /\ pc = "idle"
  /\ Commit(OnMode(m))
  /\ UNCHANGED ret

OtherCommand ==
  /\ pc = "idle"
  /\ Commit(OnOther)
  /\ UNCHANGED ret

ParseError ==
  /\ pc = "idle"
  /\ Commit(OnParseError)
  /\ UNCHANGED ret

\* aiMoveRandom draws an occupied cell and loops: nothing but the two locals
\* of the iteration has changed
AiMiss(row, col) ==
  /\ pc \in {"pvai", "aivai"}
  /\ ~ aiMoveRandomHits(Cur, row, col)
  /\ UNCHANGED vars

\* aiMoveRandom draws an empty cell, places the mark and returns; the caller
\* runs on to its next call of aiMoveRandom or back to waiting for a line
AiHit(row, col) ==
  /\ pc \in {"pvai", "aivai"}
  /\ aiMoveRandomHits(Cur, row, col)
  /\ Commit(OnAiMove(row, col))
  /\ UNCHANGED ret

Next ==
  \/ \E row \in CoordInputs : \E col \in CoordInputs : Move(row, col)
  \/ Reset
  \/ \E m \in ModeInputs : Mode(m)
  \/ OtherCommand
  \/ ParseError
  \/ \E row \in Idx : \E col \in Idx : AiMiss(row, col)
  \/ \E row \in Idx : \E col \in Idx : AiHit(row, col)

Spec == Init /\ [][Next]_vars

\* random(0, BOARD_SIZE) is fair: while an empty cell exists aiMoveRandom
\* does not draw occupied cells for ever
Fairness == WF_vars(\E row \in Idx : \E col \in Idx : AiHit(row, col))
FairSpec == Spec /\ Fairness

(* ------------------------------------------- checkWin and checkDraw alone *)
\* the two predicates applied to every 3x3 board and either player, next to
\* the program itself
InitFn ==
  /\ board \in [Idx -> [Idx -> Cell]]
  /\ currentPlayer \in Players
  /\ gameOver = FALSE
  /\ gameMode = 0
  /\ out = <<>>
  /\ lastBoard = NoBoard
  /\ pc = "fn"
  /\ ret = NoRet

CallCheckWin ==
  /\ pc = "fn"
  /\ ret' = <<"checkWin", checkWin(Cur)>>
  /\ UNCHANGED <<board, currentPlayer, gameOver, gameMode, out, lastBoard, pc>>

CallCheckDraw ==
  /\ pc = "fn"
  /\ ret' = <<"checkDraw", checkDraw(Cur)>>
  /\ UNCHANGED <<board, currentPlayer, gameOver, gameMode, out, lastBoard, pc>>

NextFn ==
  \/ Next
  \/ CallCheckWin
  \/ CallCheckDraw

SpecFn == (Init \/ InitFn) /\ [][NextFn]_vars

(* ----------------------------------------------------------- properties *)
\* what the MOVE contract requires of (row, col) in the current state
InRange(x) == x \in {0, 1, 2}
MoveValid(row, col) ==
  /\ InRange(row) /\ InRange(col)
  /\ board[row][col] = " "
  /\ ~ gameOver

ErrorMessage == <<"error", "Invalid move.">>
BoardMessage == <<"board", "">>
Types(log) == {log[k][1] : k \in 1..Len(log)}
IsPrefix(a, b) == Len(a) <= Len(b) /\ \A k \in 1..Len(a) : a[k] = b[k]
Marks(b, p) == Cardinality({c \in Idx \X Idx : b[c[1]][c[2]] = p})
MarksKept(b, c) ==
  \A i \in Idx : \A j \in Idx : b[i][j] # " " => c[i][j] = b[i][j]

\* C1: in every state where the device waits for a line and for every
\* (row, col), MOVE(row, col) is accepted (answered without an error
\* message) iff row and col are in 0..2, the cell is Empty and the game is
\* not over; an accepted move puts the mark of the player to move in exactly
\* that cell, a move failing a condition leaves the board as it was.
C1_MoveAcceptedIffValid ==
  pc = "idle" =>
    \A row \in CoordInputs : \A col \in CoordInputs :
      LET r == OnMove(row, col)
      IN /\ ("error" \notin Types(r.st.out)) <=> MoveValid(row, col)
         /\ MoveValid(row, col) =>
              r.st.board = [board EXCEPT ![row][col] = currentPlayer]
         /\ ~ MoveValid(row, col) => r.st.board = board

\* O's move to the centre was accepted in PvP: the cell holds O, X is to move
C1_Witness ==
  /\ pc = "idle" /\ gameMode = 0
  /\ out = <<BoardMessage>>
  /\ board[1][1] = "O" /\ lastBoard = board
  /\ currentPlayer = "X"

\* C2: in every state where the device waits for a line, a MOVE that is out
\* of range, on an occupied cell or after the end of the game emits exactly
\* one message, of type error, leaves board, currentPlayer, gameOver and
\* gameMode unchanged, and is followed by no AI move: the device waits for
\* the next line again.
C2_RejectedMoveOnlyError ==
  pc = "idle" =>
    \A row \in CoordInputs : \A col \in CoordInputs :
      ~ MoveValid(row, col) =>
        LET r == OnMove(row, col)
        IN /\ Len(r.st.out) = 1 /\ r.st.out[1][1] = "error"
           /\ r.st.board = board
           /\ r.st.currentPlayer = currentPlayer
           /\ r.st.gameOver = gameOver
           /\ r.st.gameMode = gameMode
           /\ r.pc = "idle"

\* a MOVE was rejected in PvAI mode during a game in progress
C2_Witness ==
  /\ pc = "idle" /\ gameMode = 1 /\ ~ gameOver
  /\ out = <<ErrorMessage>>
  /\ board # EmptyBoard

\* C3: once gameOver is true, every step that is not a RESET or a MODE
\* leaves gameOver true and the board as it is, and a MOVE, for any row and
\* col, is answered by an error message alone.
C3_NoMoveAfterGameOver ==
  /\ [](gameOver =>
          /\ pc = "idle"
          /\ \A row \in CoordInputs : \A col \in CoordInputs :
               LET r == OnMove(row, col)
               IN /\ r.st.out = <<ErrorMessage>>
                  /\ r.st.board = board
                  /\ r.st.gameOver
                  /\ r.pc = "idle")
  /\ [][gameOver =>
          \/ /\ gameOver' /\ board' = board
             /\ "board" \notin Types(out') /\ "win_status" \notin Types(out')
          \/ Reset
          \/ \E m \in ModeInputs : Mode(m)]_vars

\* a MOVE was rejected after X had won in PvP
C3_Witness ==
  /\ pc = "idle" /\ gameMode = 0 /\ gameOver
  /\ out = <<ErrorMessage>>
  /\ \E i \in Idx : \A j \in Idx : board[i][j] = "X"

\* C4: a cell that holds X or O keeps its content under every step that is
\* not a RESET or a MODE.
C4_MarksStay ==
  [][\/ MarksKept(board, board')
     \/ Reset
     \/ \E m \in ModeInputs : Mode(m)]_vars

\* the AI has moved twice in PvAI and the four marks of both players stand
C4_Witness ==
  /\ pc = "idle" /\ gameMode = 1
  /\ Marks(board, "X") = 2 /\ Marks(board, "O") = 2

\* the 8 lines of the board, as sets of (row, col)
Lines ==
  {{<<i, j>> : j \in Idx} : i \in Idx}
    \cup {{<<i, j>> : i \in Idx} : j \in Idx}
    \cup {{<<0, 0>>, <<1, 1>>, <<2, 2>>}, {<<0, 2>>, <<1, 1>>, <<2, 0>>}}
HoldsLine(b, p) == \E L \in Lines : \A c \in L : b[c[1]][c[2]] = p
Full(b) == \A i \in Idx : \A j \in Idx : b[i][j] # " "
\* the messages a step has emitted
NewMessages ==
  IF pc = "idle" THEN out' ELSE SubSeq(out', Len(out) + 1, Len(out'))
Placed(p) ==
  \E i \in Idx : \E j \in Idx : board[i][j] = " " /\ board'[i][j] = p

\* C5: on every 3x3 board and for either player P, checkWin with
\* currentPlayer = P returns true iff one of the 8 lines holds three P; and
\* a step of the program emits "Player P wins!" exactly when it has placed a
\* mark of P and P then holds a complete line.
C5_CheckWinIffLine ==
  /\ [](ret # NoRet /\ ret[1] = "checkWin" =>
          (ret[2] <=> HoldsLine(board, currentPlayer)))
  /\ [][\A p \in Players :
          (\E k \in 1..Len(NewMessages) :
              NewMessages[k] = <<"win_status",
                                 IF p = "X" THEN "Player X wins!"
                                            ELSE "Player O wins!">>)
            <=> (Placed(p) /\ HoldsLine(board', p))]_vars

\* checkWin has returned true for O on a board whose only line of O is the
\* diagonal from the top right to the bottom left
C5_Witness ==
  /\ pc = "fn" /\ ret = <<"checkWin", TRUE>> /\ currentPlayer = "O"
  /\ \A i \in Idx : \A j \in Idx : (board[i][j] = "O") <=> (i + j = 2)

\* C6: checkDraw returns true iff all 9 cells are non-Empty and neither X
\* nor O holds a complete line.
C6_CheckDrawIffFullNoWin ==
  checkDraw(Cur) <=>
    (Full(board) /\ ~ HoldsLine(board, "X") /\ ~ HoldsLine(board, "O"))

StatusMessage == <<"game_status", "Game reset.">>
IsResetState(s) ==
  /\ \A i \in Idx : \A j \in Idx : s.board[i][j] = " "
  /\ s.currentPlayer = "X"
  /\ s.gameOver = FALSE

\* C7: in every state where the device waits for a line, a RESET sets all 9
\* cells to Empty, currentPlayer to X and gameOver to false, leaves gameMode
\* as it is and emits a game_status message and then a board message that
\* shows the empty board; whatever the command emits afterwards is
\* appended to these.
C7_ResetEffect ==
  /\ [](pc = "idle" =>
          LET r == OnReset
          IN /\ IsResetState(r.st)
             /\ r.st.gameMode = gameMode
             /\ r.st.out = <<StatusMessage, BoardMessage>>
             /\ r.st.lastBoard = EmptyBoard)
  /\ [][pc # "idle" => IsPrefix(out, out')]_vars

\* a RESET has been processed in PvAI mode: empty board, X to move
C7_Witness ==
  /\ pc = "idle" /\ gameMode = 1
  /\ out = <<StatusMessage, BoardMessage>>
  /\ board = EmptyBoard /\ lastBoard = EmptyBoard
  /\ currentPlayer = "X" /\ ~ gameOver

\* the device waits for a line and the command it has processed was a RESET
ResetProcessed ==
  pc = "idle" /\ Len(out) >= 1 /\ out[1] = StatusMessage
\* a further RESET leaves the device in the very same state
ResetAgainSame == OnReset = [st |-> Cur, pc |-> "idle"]

\* C8 as claimed: whenever a RESET has been processed the device state is
\* the empty-board state (9 Empty cells, currentPlayer = X, gameOver =
\* false), and a second RESET yields that state again.
C8_ResetIdempotentAnyMode ==
  ResetProcessed => (IsResetState(Cur) /\ ResetAgainSame)

\* C8 as amended: in every mode but AIvAI (gameMode # 2), whenever a RESET
\* has been processed the device state is the empty-board state, and a
\* second RESET yields that state again.
C8_ResetIdempotent ==
  (ResetProcessed /\ gameMode # 2) => (IsResetState(Cur) /\ ResetAgainSame)

\* a RESET has been processed in PvP mode
C8_Witness ==
  /\ ResetProcessed /\ gameMode = 0
  /\ board = EmptyBoard /\ ResetAgainSame

\* C9: in every state where the device waits for a line, game in progress
\* or over, MODE with value m sets gameMode to m, empties the board, sets
\* currentPlayer to X and gameOver to false, and emits a game_mode message,
\* a game_status message and a board message showing the empty board, in
\* this order; whatever the command emits afterwards is appended to these.
C9_ModeEffect ==
  /\ [](pc = "idle" =>
          \A m \in ModeInputs :
            LET r == OnMode(m)
            IN /\ r.st.gameMode = m
               /\ IsResetState(r.st)
               /\ Len(r.st.out) = 3
               /\ r.st.out[1][1] = "game_mode"
               /\ r.st.out[2][1] = "game_status"
               /\ r.st.out[3] = BoardMessage
               /\ r.st.lastBoard = EmptyBoard)
  /\ [][(pc # "idle" /\ Len(out) >= 3) =>
          (SubSeq(out', 1, 3) = SubSeq(out, 1, 3))]_vars

\* MODE 2 has been processed up to the first move of the autoplay
C9_Witness ==
  /\ pc = "aivai" /\ gameMode = 2
  /\ Len(out) = 3 /\ out[1] = <<"game_mode", "Game mode set to 2">>
  /\ out[2] = StatusMessage /\ out[3] = BoardMessage
  /\ board = EmptyBoard /\ lastBoard = EmptyBoard

\* C10: in PvAI mode an accepted MOVE that ends the game is followed by no
\* AI move; one that does not end it takes the device into aiMoveRandom,
\* from where, under fair random choice, the device comes back to waiting
\* for a line, and the one step that takes it back places a single O in an
\* Empty cell and ends with a board message showing the new position.
C10_PvAIOneAiMove ==
  /\ [](pc = "idle" /\ gameMode = 1 =>
          \A row \in Idx : \A col \in Idx :
            MoveValid(row, col) =>
              LET r == OnMove(row, col)
              IN r.pc = IF r.st.gameOver THEN "idle" ELSE "pvai")
  /\ [][pc = "pvai" =>
          /\ pc' = "idle"
          /\ \E row \in Idx : \E col \in Idx :
               /\ board[row][col] = " "
               /\ board' = [board EXCEPT ![row][col] = "O"]
          /\ out'[Len(out')] = BoardMessage
          /\ lastBoard' = board']_vars
  /\ (pc = "pvai" ~> pc = "idle")

\* the AI has answered X's first move and the game goes on
C10_Witness ==
  /\ pc = "idle" /\ gameMode = 1 /\ ~ gameOver
  /\ Marks(board, "X") = 1 /\ Marks(board, "O") = 1
  /\ out = <<BoardMessage, BoardMessage>> /\ lastBoard = board

WinStatus(text) == <<"win_status", text>>
Emitted(log, msg) == \E k \in 1..Len(log) : log[k] = msg
InAiMove == pc \in {"pvai", "aivai"}

\* C11: in PvAI mode the step that carries out the AI's move leaves
\* currentPlayer = X whether or not it ends the game, and announces a
\* line of O as "Player O wins!"; whenever the device waits for a line in
\* PvAI mode currentPlayer is X, and the mark an accepted MOVE places is X.
C11_PvAITurnBackToX ==
  /\ [][pc = "pvai" =>
          /\ currentPlayer' = "X"
          /\ HoldsLine(board', "O") =>
               (gameOver' /\ Emitted(out', WinStatus("Player O wins!")))]_vars
  /\ [](pc = "idle" /\ gameMode = 1 =>
          /\ currentPlayer = "X"
          /\ \A row \in Idx : \A col \in Idx :
               MoveValid(row, col) => OnMove(row, col).st.board[row][col] = "X")

\* the AI has won in PvAI mode and X is the player to move all the same
C11_Witness ==
  /\ pc = "idle" /\ gameMode = 1 /\ gameOver
  /\ HoldsLine(board, "O")
  /\ Emitted(out, WinStatus("Player O wins!"))
  /\ currentPlayer = "X"

\* C12: under fair random choice an AIvAI autoplay that has started comes
\* back to waiting for a line; the step that ends it leaves gameOver true
\* and its last message is a win_status saying "Player X wins!", "Player O
\* wins!" or "It's a draw!".
C12_AutoplayTerminates ==
  /\ (pc = "aivai" ~> pc = "idle")
  /\ [][(pc = "aivai" /\ pc' = "idle") =>
          /\ gameOver'
          /\ out'[Len(out')] \in {WinStatus("Player X wins!"),
                                  WinStatus("Player O wins!"),
                                  WinStatus("It's a draw!")}]_vars

\* an autoplay has ended in a draw
C12_Witness ==
  /\ pc = "idle" /\ gameMode = 2 /\ gameOver
  /\ Full(board)
  /\ out[Len(out)] = WinStatus("It's a draw!")

\* C13: during an autoplay every step is one AI move (one more mark, no
\* mark changed, mode 2 kept); whenever the device waits for a line in mode
\* 2 gameOver is true and every MOVE is answered by an error alone; MODE 2
\* from any mode and RESET in mode 2 start an autoplay, which under fair
\* random choice is played to the end before the device waits for a line.
C13_AutoplayBlocksInput ==
  /\ [][pc = "aivai" =>
          /\ gameMode' = 2
          /\ MarksKept(board, board')
          /\ Marks(board', " ") = Marks(board, " ") - 1]_vars
  /\ [](pc = "aivai" => gameMode = 2)
  /\ [](pc = "idle" /\ gameMode = 2 =>
          /\ gameOver
          /\ \A row \in CoordInputs : \A col \in CoordInputs :
               OnMove(row, col) = [st |-> [Fresh EXCEPT !.out = <<ErrorMessage>>],
                                   pc |-> "idle"]
          /\ OnReset.pc = "aivai")
  /\ [](pc = "idle" => OnMode(2).pc = "aivai")
  /\ (pc = "aivai" ~> (pc = "idle" /\ gameOver))

\* a MOVE was rejected after an autoplay that O had won
C13_Witness ==
  /\ pc = "idle" /\ gameMode = 2 /\ gameOver
  /\ out = <<ErrorMessage>>
  /\ HoldsLine(board, "O")

\* C14: in every state where the device waits for a line, a line whose
\* command is none of MOVE, RESET, MODE and a line that fails to parse emit
\* no message, leave board, currentPlayer, gameOver and gameMode as they
\* are and start neither an AI move nor an autoplay.
C14_OtherInputIgnored ==
  pc = "idle" =>
    \A r \in {OnOther, OnParseError} :
      /\ r.st.out = <<>>
      /\ r.st.board = board
      /\ r.st.currentPlayer = currentPlayer
      /\ r.st.gameOver = gameOver
      /\ r.st.gameMode = gameMode
      /\ r.pc = "idle"

\* such a line has been read in PvAI mode during a game in progress
C14_Witness ==
  /\ pc = "idle" /\ gameMode = 1 /\ ~ gameOver
  /\ out = <<>>
  /\ Marks(board, "X") = 1 /\ Marks(board, "O") = 1

\* the result of a command in PvP mode, seen from the current mode
AsInPvP(r) == [st |-> [r.st EXCEPT !.gameMode = gameMode], pc |-> r.pc]
FreshPvP == [Fresh EXCEPT !.gameMode = 0]

\* C15: MODE with a value other than 0, 1, 2 stores that value and resets
\* the game; while gameMode holds such a value the device is never inside
\* an AI move, and MOVE, RESET and any other line have exactly the effect
\* and emit exactly the messages they have in PvP mode (gameMode = 0).
C15_UnknownModeIsPvP ==
  /\ pc = "idle" =>
       \A m \in ModeInputs \ {0, 1, 2} :
         LET r == OnMode(m)
         IN r.st.gameMode = m /\ IsResetState(r.st) /\ r.pc = "idle"
  /\ gameMode \notin {0, 1, 2} =>
       /\ pc = "idle"
       /\ \A row \in CoordInputs : \A col \in CoordInputs :
            OnMove(row, col) = AsInPvP(loopAiLogic(loopMove(FreshPvP, row, col)))
       /\ OnReset = AsInPvP(loopAiLogic(loopReset(FreshPvP)))
       /\ OnOther = AsInPvP(loopAiLogic(FreshPvP))
       /\ OnMove(1, 1).pc = "idle" /\ OnReset.pc = "idle" /\ OnOther.pc = "idle"

\* two MOVEs have been played in mode 3 and nobody has moved for O but the
\* second MOVE
C15_Witness ==
  /\ pc = "idle" /\ gameMode = 3 /\ ~ gameOver
  /\ Marks(board, "X") = 1 /\ Marks(board, "O") = 1
  /\ currentPlayer = "X" /\ out = <<BoardMessage>>

\* C16: in every state the number of X is the number of O or one more;
\* every mark placed is an X iff the two numbers were equal before it; and
\* whenever the device waits for a line with the game not over,
\* currentPlayer = X iff the two numbers are equal.
C16_MarksAlternate ==
  /\ [](Marks(board, "X") - Marks(board, "O") \in {0, 1})
  /\ [](pc = "idle" /\ ~ gameOver =>
          (currentPlayer = "X" <=> Marks(board, "X") = Marks(board, "O")))
  /\ [][\A p \in Players :
          Placed(p) => (p = "X" <=> Marks(board, "X") = Marks(board, "O"))]_vars

\* in PvP three X and two O stand and O is to move
C16_Witness ==
  /\ pc = "idle" /\ gameMode = 0 /\ ~ gameOver
  /\ Marks(board, "X") = 3 /\ Marks(board, "O") = 2
  /\ currentPlayer = "O"

\* C17: a step emits "It's a draw!" only into a state whose board has no
\* Empty cell and no complete line of X or of O; a step that fills the last
\* cell and completes a line emits the win message of the mover and no draw
\* message.
C17_DrawOnlyWithoutLine ==
  [][/\ Emitted(NewMessages, WinStatus("It's a draw!")) =>
          (Full(board') /\ ~ HoldsLine(board', "X") /\ ~ HoldsLine(board', "O"))
     /\ \A p \in Players :
          (Placed(p) /\ Full(board') /\ HoldsLine(board', p)) =>
            /\ Emitted(NewMessages,
                       WinStatus(IF p = "X" THEN "Player X wins!"
                                            ELSE "Player O wins!"))
            /\ ~ Emitted(NewMessages, WinStatus("It's a draw!"))]_vars

\* X has filled the last cell, completed a line and been announced winner
C17_Witness ==
  /\ pc = "idle" /\ gameMode = 0 /\ gameOver
  /\ Full(board) /\ HoldsLine(board, "X")
  /\ out = <<WinStatus("Player X wins!"), BoardMessage>>

\* C18: whenever the device is inside aiMoveRandom the board has an Empty
\* cell; the step that leaves the retry loop puts the mark of currentPlayer
\* in one cell that was Empty and changes no other cell; and under fair
\* random choice every invocation, whatever the number of Empty cells,
\* returns: the device does not stay inside aiMoveRandom for the same
\* player for ever (the next invocation, if any, is for the other player).
C18_AiMoveRandomTerminates ==
  /\ [](InAiMove => ~ Full(board))
  /\ [][InAiMove =>
          \E row \in Idx : \E col \in Idx :
            /\ board[row][col] = " "
            /\ board' = [board EXCEPT ![row][col] = currentPlayer]]_vars
  /\ \A p \in Players :
       (InAiMove /\ currentPlayer = p) ~> ~ (InAiMove /\ currentPlayer = p)

\* aiMoveRandom has been called with a single Empty cell left
C18_Witness ==
  /\ pc = "aivai" /\ Marks(board, " ") = 1

\* C19: whenever the device waits for a line, gameOver is true iff X or O
\* holds a complete line or the board has no Empty cell; and in no state do
\* X and O both hold a complete line.
C19_GameOverIffTerminal ==
  /\ pc = "idle" =>
       (gameOver <=>
          (HoldsLine(board, "X") \/ HoldsLine(board, "O") \/ Full(board)))
  /\ ~ (HoldsLine(board, "X") /\ HoldsLine(board, "O"))

\* a PvP game has ended in a draw
C19_Witness ==
  /\ pc = "idle" /\ gameMode = 0 /\ gameOver
  /\ Full(board) /\ ~ HoldsLine(board, "X") /\ ~ HoldsLine(board, "O")
  /\ out = <<WinStatus("It's a draw!"), BoardMessage>>

WinStatusCount(log) == Cardinality({k \in 1..Len(log) : log[k][1] = "win_status"})

\* C20: a step emits at most one win_status message, and emits one exactly
\* when it takes gameOver from false to true; gameOver goes from true to
\* false only in a RESET or MODE step. Hence after a win_status gameOver is
\* true and no further one is emitted before the next reset.
C20_OneWinStatusPerGame ==
  [][/\ WinStatusCount(NewMessages) <= 1
     /\ (WinStatusCount(NewMessages) = 1) <=> (~ gameOver /\ gameOver')
     /\ (gameOver /\ ~ gameOver') =>
          (Reset \/ \E m \in ModeInputs : Mode(m))]_vars

\* an autoplay has ended with its one win_status message
C20_Witness ==
  /\ pc = "idle" /\ gameMode = 2 /\ gameOver
  /\ WinStatusCount(out) = 1
  /\ out[Len(out)][1] = "win_status"

TypeOK ==
  /\ board \in [Idx -> [Idx -> Cell]]
  /\ currentPlayer \in Players
  /\ gameOver \in BOOLEAN
  /\ gameMode \in ModeInputs
  /\ pc \in {"idle", "pvai", "aivai", "fn"}
====
